---- MODULE Spec2Model ----
(***************************************************************************)
(* Model of the archeobot RAG pipeline: the retrieval engine of src/rag.py *)
(* with its two callers (src/app.py and the CLI of src/rag.py), and the    *)
(* ingestion run of src/ingest.py.                                         *)
(*                                                                         *)
(* Numbers.  Python floats are modelled by exact rationals on fixed grids: *)
(*   - a cosine distance is an integer count of 1/3000 (0 .. 6000 covers   *)
(*     the range [0, 2] of the metric);                                    *)
(*   - a value rounded to 3 decimals (round(x, 3)) is an integer count of  *)
(*     1/1000.                                                             *)
(* round(x, 3) of a value that lies exactly half way between two           *)
(* thousandths depends on the binary representation of the float           *)
(* (round(0.5005, 3) = 0.5, round(0.2505, 3) = 0.251), so such a tie is    *)
(* modelled as a choice between the two neighbours.                        *)
(*                                                                         *)
(* Texts (answers, printed lines) are written without their accents and    *)
(* emoji.  SpecQuery is the engine serving two callers against a persisted *)
(* collection; SpecIngest is one run of ingest.py; SpecAuth is AuthSystem  *)
(* of src/auth.py called directly; SpecApp is the application of           *)
(* src/app.py: two browser sessions on one engine and one AuthSystem.      *)
(***************************************************************************)
EXTENDS Integers, Sequences, FiniteSets, TLC

VARIABLES
    collection,   \* the persisted Chroma collection: [exists, entries]
    rag_engine,   \* per caller: the RAGEngine it holds (Unset, None or Ready)
    pc,           \* per caller: "idle", "searched" (inside query) or "done"
    op,           \* per caller: the operation in progress or last finished
    kArg,         \* per caller: the k argument of the call
    hits,         \* per caller: the list search() returned / the list passed in
    looked_up,    \* per caller: whether the call made the index look entries up
    result,       \* per caller: what the call returned to the caller
    index_error,  \* per caller: the embedding or the index failed in the call
    shown,        \* per caller: what the caller's front end showed the user
    disk,         \* data/raw: per configured file, [exists, readable, size]
    ipc,          \* where the ingestion run (main of ingest.py) stands
    next_file,    \* load_documents: index of the file the loop handles next
    documents,    \* load_documents: the documents loaded so far
    chunks,       \* main of ingest.py: the chunks create_chunks returned
    printed,      \* what the ingestion run has printed, in order
    prior,        \* the collection as the ingestion run found it
    users,        \* data/users.json: username -> [password, created_at, last_login]
    now,          \* the clock behind datetime.now(): one tick per call
    auth_call,    \* the last AuthSystem call: its arguments and what it returned
    registered_with, \* username -> the password of its first successful register
    session,      \* per browser session: st.session_state of src/app.py
    app_event     \* the last run of the app.py script: the page, the button, the calls made

queryVars == <<rag_engine, pc, op, kArg, hits, looked_up, result, index_error, shown>>
ingestVars == <<disk, ipc, next_file, documents, chunks, printed, prior>>
authVars == <<users, now, auth_call, registered_with>>
appVars == <<session, app_event>>
vars == <<collection, queryVars, ingestVars, authVars, appVars>>

----------------------------------------------------------------------------
(* Bounds of the model *)

\* Largest number of entries of a collection the engine is run against.
MaxEntries == 3

\* The default of the k parameter of search and query (and the k that
\* chatbot_page passes; the CLI passes 2).
DefaultK == 3

\* The k arguments tried: non-positive ones, and ones below, at and above
\* the number of entries.
KValues == (0 - 1) .. DefaultK

\* The callers that use the engine side by side.
Callers == {"c1", "c2"}

\* Largest size of a source file, counted in the chunks it splits into.
MaxFileChunks == 1

\* Largest number of AuthSystem calls in a run (the clock stops there).
MaxAuthCalls == 4

\* Largest number of runs of the app.py script (button clicks) in a run.
MaxAppEvents == 5

\* The browser sessions open side by side on the application.
Sessions == {"s1", "s2"}

----------------------------------------------------------------------------
(* Python values *)

\* A metadata key that is not in the dict.
NoKey == "<no key>"

\* rag_engine values: not constructed yet, None (init_rag caught the
\* exception), or a constructed RAGEngine.
Unset == "unset"
None == "None"
Ready == "RAGEngine"

\* dict.get(key, default)
Get(meta, key, default) == IF meta[key] = NoKey THEN default ELSE meta[key]

\* round(num/den, 3 decimals) where num/den is already counted in
\* thousandths: the set of results a float computation can give.
Round3(num, den) ==
    LET lo == num \div den
        r  == num % den
    IN  IF 2 * r < den THEN {lo}
        ELSE IF 2 * r > den THEN {lo + 1}
        ELSE {lo, lo + 1}

\* round(1 - distance, 3): distance in 1/3000, result in 1/1000.  The grid
\* has no value half way between two thousandths.
similarity_of(distance) == CHOOSE s \in Round3(3000 - distance, 3) : TRUE

\* round(distance, 3)
rounded_distance(distance) == CHOOSE s \in Round3(distance, 3) : TRUE

RECURSIVE SumScores(_)
SumScores(hs) ==
    IF hs = <<>> THEN 0
    ELSE hs[1].similarity_score + SumScores(Tail(hs))

----------------------------------------------------------------------------
(* The vector index (chromadb collection) *)

\* Metadata of the entries the engine is run against: a document as
\* ingest.py labels it, and an entry stored without site/source keys.
MetaOf(file, site) ==
    [source |-> file, site |-> site, type |-> "guide_officiel", date |-> "2024"]

Metas ==
    { MetaOf("carthage.txt", "Carthage"),
      [source |-> NoKey, site |-> NoKey, type |-> NoKey, date |-> NoKey] }

\* Cosine distances (in 1/3000) of a stored chunk to the question asked:
\* 1 gives the score 1.000 (from 0.99967), 2 gives 0.999 (from 0.99933),
\* 3300 gives -0.1 (a chunk unrelated to the question).
Distances == {1, 2, 3300}

Entries == [metadata : Metas, distance : Distances]

RECURSIVE SeqsUpTo(_, _)
SeqsUpTo(S, n) ==
    IF n = 0 THEN {<<>>}
    ELSE LET shorter == SeqsUpTo(S, n - 1)
         IN  shorter \cup
             {Append(s, e) : s \in {t \in shorter : Len(t) = n - 1}, e \in S}

NoCollection == [exists |-> FALSE, entries |-> <<>>]

\* The positions of the n nearest entries, nearest first (ties: the entry
\* stored first).
RECURSIVE Nearest(_, _, _)
Nearest(entries, n, taken) ==
    LET left == (1 .. Len(entries)) \ taken
    IN  IF n = 0 \/ left = {} THEN <<>>
        ELSE LET best == CHOOSE i \in left :
                            \A j \in left :
                                \/ entries[i].distance < entries[j].distance
                                \/ /\ entries[i].distance = entries[j].distance
                                   /\ i <= j
             IN  <<best>> \o Nearest(entries, n - 1, taken \cup {best})

\* collection.query(query_texts=[q], n_results=k, include=[...]): the index
\* rejects n_results <= 0 before it embeds or looks anything up; otherwise
\* it returns the min(k, count) nearest entries by ascending distance.
\* rows are (document, metadata, distance) with the document named by its
\* position in the collection.
CollectionQuery(coll, k) ==
    IF k <= 0
    THEN [raised |-> TRUE, looked_up |-> FALSE, rows |-> <<>>]
    ELSE LET pos == Nearest(coll.entries, k, {})
         IN  [raised |-> FALSE, looked_up |-> TRUE,
              rows |-> [i \in 1 .. Len(pos) |->
                          [document |-> pos[i],
                           metadata |-> coll.entries[pos[i]].metadata,
                           distance |-> coll.entries[pos[i]].distance]]]

\* collection.query failing for a valid k: the embedding function raises
\* (before any lookup) or the index raises (during it).
IndexFailures ==
    {[raised |-> TRUE, looked_up |-> b, rows |-> <<>>] : b \in BOOLEAN}

----------------------------------------------------------------------------
(* RAGEngine (src/rag.py) *)

\* RAGEngineInit with get_or_create_collection in place of get_collection:
\* an absent collection no longer stops the constructor.
RAGEngineInit_get_or_create(coll) == [raised |-> FALSE, engine |-> Ready]

\* RAGEngine.__init__: client.get_collection raises when the collection is
\* absent, so no engine is constructed.
RAGEngineInit(coll) ==
    IF coll.exists THEN [raised |-> FALSE, engine |-> Ready]
    ELSE [raised |-> TRUE, engine |-> None]

\* search with the index call wrapped in a try that returns no results.
search_swallow(coll, k) ==
    LET res == CollectionQuery(coll, k)
    IN  [raised |-> FALSE, looked_up |-> res.looked_up,
         hits |-> [i \in 1 .. Len(res.rows) |->
                     [id |-> i - 1,
                      content |-> res.rows[i].document,
                      metadata |-> res.rows[i].metadata,
                      similarity_score |-> similarity_of(res.rows[i].distance),
                      distance |-> rounded_distance(res.rows[i].distance)]]]

\* search returning no results when collection.query raised (a try around
\* the index call).
search_from_swallow(res) ==
    [raised |-> FALSE, looked_up |-> res.looked_up, hits |-> <<>>]

\* RAGEngine.search from the outcome of collection.query on: an exception
\* propagates (there is no try in search); otherwise one formatted result
\* per row.
search_from(res) ==
    IF res.raised
    THEN [raised |-> TRUE, looked_up |-> res.looked_up, hits |-> <<>>]
    ELSE [raised |-> FALSE, looked_up |-> res.looked_up,
          hits |-> [i \in 1 .. Len(res.rows) |->
                      [id |-> i - 1,
                       content |-> res.rows[i].document,
                       metadata |-> res.rows[i].metadata,
                       similarity_score |-> similarity_of(res.rows[i].distance),
                       distance |-> rounded_distance(res.rows[i].distance)]]]

\* RAGEngine.search
search(coll, k) == search_from(CollectionQuery(coll, k))

\* The source_info dict of one result.
source_info(h) ==
    [site |-> Get(h.metadata, "site", "Inconnu"),
     source |-> Get(h.metadata, "source", "Document"),
     score |-> h.similarity_score]

\* The sources loop comparing site and source only (the score left out of
\* the comparison).
RECURSIVE build_sources_by_site(_, _)
build_sources_by_site(hs, sources) ==
    IF hs = <<>> THEN sources
    ELSE LET info == source_info(hs[1])
         IN  build_sources_by_site(Tail(hs),
                 IF \E i \in 1 .. Len(sources) :
                        /\ sources[i].site = info.site
                        /\ sources[i].source = info.source
                 THEN sources ELSE Append(sources, info))

\* The sources loop: append unless an equal dict is already in the list.
RECURSIVE build_sources(_, _)
build_sources(hs, sources) ==
    IF hs = <<>> THEN sources
    ELSE LET info == source_info(hs[1])
         IN  build_sources(Tail(hs),
                 IF \E i \in 1 .. Len(sources) : sources[i] = info
                 THEN sources ELSE Append(sources, info))

\* The confidence taken from the best hit instead of the mean.
confidence_of_best(hs) == {hs[1].similarity_score}

\* The values round(sum(scores) / len(context_results), 3) can take.
confidence_of(hs) == Round3(SumScores(hs), Len(hs))

\* The answer text: a fixed text and, after the template, the contents
\* joined in hit order.
AnswerText(text, hs) ==
    [text |-> text, context |-> [i \in 1 .. Len(hs) |-> hs[i].content]]

\* generate_response counting the deduplicated sources as context_results.
generate_response_counts_sources(hs) ==
    IF hs = <<>>
    THEN {[answer |-> AnswerText("Je ne dispose pas d'informations fiables sur ce sujet dans ma base de connaissances.", <<>>),
           sources |-> <<>>,
           confidence |-> 0]}
    ELSE {[answer |-> AnswerText("D'apres les informations disponibles :", hs),
           sources |-> build_sources(hs, <<>>),
           confidence |-> c,
           context_results |-> Len(build_sources(hs, <<>>))] : c \in confidence_of(hs)}

\* RAGEngine.generate_response: the set of dicts it can return (one, unless
\* the mean is a rounding tie).
generate_response(hs) ==
    IF hs = <<>>
    THEN {[answer |-> AnswerText("Je ne dispose pas d'informations fiables sur ce sujet dans ma base de connaissances.", <<>>),
           sources |-> <<>>,
           confidence |-> 0]}
    ELSE {[answer |-> AnswerText("D'apres les informations disponibles :", hs),
           sources |-> build_sources(hs, <<>>),
           confidence |-> c,
           context_results |-> Len(hs)] : c \in confidence_of(hs)}

\* The dict RAGEngine.query builds itself when search returned nothing.
NoResultsResponse ==
    [answer |-> AnswerText("Aucune information pertinente trouvee.", <<>>),
     sources |-> <<>>,
     confidence |-> 0,
     context_results |-> 0]

\* Step 2 of RAGEngine.query.
query_response(hs) ==
    IF hs # <<>> THEN generate_response(hs) ELSE {NoResultsResponse}

\* RAGEngine.get_collection_info
get_collection_info(coll) ==
    [name |-> "sites_archeologiques_tunisie", count |-> Len(coll.entries)]

\* A call that removes the entry stored first from the collection.
CollectionAfterCall_evict(coll) ==
    [coll EXCEPT !.entries = IF coll.entries = <<>> THEN <<>> ELSE Tail(coll.entries)]

\* No method of RAGEngine writes to the collection: the collection after a
\* call is the collection before it.
CollectionAfterCall(coll) == coll

----------------------------------------------------------------------------
(* What a call hands back to its caller *)

NoResult == [kind |-> "none"]
Raised == [kind |-> "exception"]
NotInitialized == [kind |-> "not_initialized"]
Returned(v) == [kind |-> "returned", value |-> v]

\* The hit lists generate_response is called with directly.
DirectHitLists(coll) == {<<>>, search(coll, DefaultK).hits}

----------------------------------------------------------------------------
(* The front ends (chatbot_page of src/app.py, main of src/rag.py) *)

\* The front end behind each caller.
Front(c) == IF c = "c1" THEN "chatbot_page" ELSE "main"

NothingShown == "(nothing)"

\* chatbot_page: except Exception -> st.error; confidence > 0 ->
\* st.success and the answer; otherwise st.warning.
chatbot_page_shows(res) ==
    IF res.kind = "exception" THEN "Erreur lors de la recherche"
    ELSE IF res.value.confidence > 0 THEN "resultat(s) trouve(s)"
    ELSE "Aucune information pertinente trouvee."

\* main (rag.py): except Exception -> print("Erreur: ..."); otherwise the
\* answer text is printed.
main_shows(res) ==
    IF res.kind = "exception" THEN "Erreur"
    ELSE res.value.answer.text

\* What the front end of caller c shows for the outcome of query.
Shows(c, res) ==
    IF Front(c) = "chatbot_page" THEN chatbot_page_shows(res) ELSE main_shows(res)

\* What it shows without an engine.
ShowsUninitialized(c) ==
    IF Front(c) = "chatbot_page"
    THEN "Le moteur RAG n'est pas initialise. Executez ingest.py d'abord."
    ELSE "Erreur d'initialisation"

----------------------------------------------------------------------------
(* The engine and its callers *)

\* No AuthSystem call was made yet.
NoCall == [op |-> "none", username |-> "", password |-> "", io |-> "ok", success |-> FALSE]

\* AuthSystem is not in use.
NoAuth ==
    /\ users = <<>>
    /\ now = 0
    /\ auth_call = NoCall
    /\ registered_with = <<>>

\* st.session_state as lines 42-47 of app.py leave it in a new session.
NewSession == [authenticated |-> FALSE, username |-> "", rag_engine |-> None]

\* No run of the app.py script was made yet.
NoEvent ==
    [kind |-> "none", session |-> "", page |-> "", engine |-> "none",
     auth |-> "none", success |-> FALSE]

\* The application is not in use.
NoApp ==
    /\ session = [s \in Sessions |-> NewSession]
    /\ app_event = NoEvent

\* No ingestion run is in progress while the engine serves queries.
NoIngestion ==
    /\ disk = <<>>
    /\ ipc = "off"
    /\ next_file = 0
    /\ documents = <<>>
    /\ chunks = <<>>
    /\ printed = <<>>
    /\ prior = NoCollection

InitQuery ==
    /\ collection \in {NoCollection} \cup
           {[exists |-> TRUE, entries |-> es] : es \in SeqsUpTo(Entries, MaxEntries)}
    /\ rag_engine = [c \in Callers |-> Unset]
    /\ pc = [c \in Callers |-> "idle"]
    /\ op = [c \in Callers |-> "none"]
    /\ kArg = [c \in Callers |-> 0]
    /\ hits = [c \in Callers |-> <<>>]
    /\ looked_up = [c \in Callers |-> FALSE]
    /\ result = [c \in Callers |-> NoResult]
    /\ index_error = [c \in Callers |-> FALSE]
    /\ shown = [c \in Callers |-> NothingShown]
    /\ NoIngestion
    /\ NoAuth
    /\ NoApp

\* init_rag (app.py) / the try around RAGEngine() in main (rag.py): the
\* exception is caught and the caller is left without an engine.
InitRag(c) ==
    /\ rag_engine[c] = Unset
    /\ rag_engine' = [rag_engine EXCEPT ![c] = RAGEngineInit(collection).engine]
    /\ UNCHANGED <<collection, pc, op, kArg, hits, looked_up, result, index_error, shown, ingestVars, authVars, appVars>>

\* chatbot_page with rag_engine None: st.error("... n'est pas initialise"),
\* and no call of query; main (rag.py) prints the error and returns.
AskUninitialized(c) ==
    /\ rag_engine[c] = None
    /\ pc[c] = "idle"
    /\ pc' = [pc EXCEPT ![c] = "done"]
    /\ op' = [op EXCEPT ![c] = "ask"]
    /\ result' = [result EXCEPT ![c] = NotInitialized]
    /\ shown' = [shown EXCEPT ![c] = ShowsUninitialized(c)]
    /\ UNCHANGED <<collection, rag_engine, kArg, hits, looked_up, index_error, ingestVars, authVars, appVars>>

\* RAGEngine.query, step 1: results = self.search(question, k=k).  An
\* exception leaves query at once.
QuerySearch(c, k) ==
    /\ rag_engine[c] = Ready
    /\ pc[c] = "idle"
    /\ LET s == search(collection, k)
       IN  /\ kArg' = [kArg EXCEPT ![c] = k]
           /\ op' = [op EXCEPT ![c] = "query"]
           /\ hits' = [hits EXCEPT ![c] = s.hits]
           /\ looked_up' = [looked_up EXCEPT ![c] = s.looked_up]
           /\ pc' = [pc EXCEPT ![c] = IF s.raised THEN "done" ELSE "searched"]
           /\ result' = [result EXCEPT ![c] = IF s.raised THEN Raised ELSE NoResult]
           /\ shown' = [shown EXCEPT ![c] = IF s.raised THEN Shows(c, Raised) ELSE @]
    /\ collection' = CollectionAfterCall(collection)
    /\ UNCHANGED <<rag_engine, index_error, ingestVars, authVars, appVars>>

\* RAGEngine.query, step 1, with the embedding or the index failing inside
\* collection.query.
QuerySearchFails(c, k) ==
    /\ rag_engine[c] = Ready
    /\ pc[c] = "idle"
    /\ k >= 1
    /\ \E failure \in IndexFailures :
         LET s == search_from(failure)
         IN  /\ kArg' = [kArg EXCEPT ![c] = k]
             /\ op' = [op EXCEPT ![c] = "query"]
             /\ hits' = [hits EXCEPT ![c] = s.hits]
             /\ looked_up' = [looked_up EXCEPT ![c] = s.looked_up]
             /\ pc' = [pc EXCEPT ![c] = IF s.raised THEN "done" ELSE "searched"]
             /\ result' = [result EXCEPT ![c] = IF s.raised THEN Raised ELSE NoResult]
             /\ shown' = [shown EXCEPT ![c] = IF s.raised THEN Shows(c, Raised) ELSE @]
    /\ index_error' = [index_error EXCEPT ![c] = TRUE]
    /\ collection' = CollectionAfterCall(collection)
    /\ UNCHANGED <<rag_engine, ingestVars, authVars, appVars>>

\* RAGEngine.query, step 2: the response is built from the results and
\* returned.
QueryRespond(c) ==
    /\ pc[c] = "searched"
    /\ \E r \in query_response(hits[c]) :
           /\ result' = [result EXCEPT ![c] = Returned(r)]
           /\ shown' = [shown EXCEPT ![c] = Shows(c, Returned(r))]
    /\ pc' = [pc EXCEPT ![c] = "done"]
    /\ collection' = CollectionAfterCall(collection)
    /\ UNCHANGED <<rag_engine, op, kArg, hits, looked_up, index_error, ingestVars, authVars, appVars>>

\* RAGEngine.generate_response called on its own with a hit list.
CallGenerateResponse(c, hs) ==
    /\ rag_engine[c] = Ready
    /\ pc[c] = "idle"
    /\ \E r \in generate_response(hs) :
           result' = [result EXCEPT ![c] = Returned(r)]
    /\ hits' = [hits EXCEPT ![c] = hs]
    /\ op' = [op EXCEPT ![c] = "generate_response"]
    /\ pc' = [pc EXCEPT ![c] = "done"]
    /\ collection' = CollectionAfterCall(collection)
    /\ UNCHANGED <<rag_engine, kArg, looked_up, index_error, shown, ingestVars, authVars, appVars>>

\* RAGEngine.get_collection_info (the sidebar of chatbot_page, main of rag.py).
CallGetCollectionInfo(c) ==
    /\ rag_engine[c] = Ready
    /\ pc[c] = "idle"
    /\ result' = [result EXCEPT ![c] = Returned(get_collection_info(collection))]
    /\ op' = [op EXCEPT ![c] = "get_collection_info"]
    /\ pc' = [pc EXCEPT ![c] = "done"]
    /\ collection' = CollectionAfterCall(collection)
    /\ UNCHANGED <<rag_engine, kArg, hits, looked_up, index_error, shown, ingestVars, authVars, appVars>>

\* The caller has used the result and is free to call again (the next
\* rerun of the page, the next turn of the CLI loop).
NextCall(c) ==
    /\ pc[c] = "done"
    /\ rag_engine[c] = Ready
    /\ pc' = [pc EXCEPT ![c] = "idle"]
    /\ op' = [op EXCEPT ![c] = "none"]
    /\ kArg' = [kArg EXCEPT ![c] = 0]
    /\ hits' = [hits EXCEPT ![c] = <<>>]
    /\ looked_up' = [looked_up EXCEPT ![c] = FALSE]
    /\ result' = [result EXCEPT ![c] = NoResult]
    /\ index_error' = [index_error EXCEPT ![c] = FALSE]
    /\ shown' = [shown EXCEPT ![c] = NothingShown]
    /\ UNCHANGED <<collection, rag_engine, ingestVars, authVars, appVars>>

NextQuery ==
    \E c \in Callers :
        \/ InitRag(c)
        \/ AskUninitialized(c)
        \/ \E k \in KValues : QuerySearch(c, k)
        \/ \E k \in KValues : QuerySearchFails(c, k)
        \/ QueryRespond(c)
        \/ \E hs \in DirectHitLists(collection) : CallGenerateResponse(c, hs)
        \/ CallGetCollectionInfo(c)
        \/ NextCall(c)

SpecQuery == InitQuery /\ [][NextQuery]_vars

----------------------------------------------------------------------------
(* Properties of the retrieval engine, checked under SpecQuery *)

\* A caller holds the dict that op returned.
Got(c, o) == pc[c] = "done" /\ op[c] = o /\ result[c].kind = "returned"

\* The (site, source, score) triples of a hit list, in hit order.
HitTriples(hs) == [i \in 1 .. Len(hs) |-> source_info(hs[i])]

\* The position of the first occurrence of x in t.
FirstIndex(t, x) ==
    CHOOSE i \in 1 .. Len(t) : t[i] = x /\ \A j \in 1 .. (i - 1) : t[j] # x

Abs(x) == IF x < 0 THEN 0 - x ELSE x

\* C1: the sources list of a query result holds no two equal (site, source,
\* score) triples; it holds exactly the distinct triples of the hits, each
\* once, ordered by first occurrence among the hits (so hits that differ
\* only in score give separate entries).
C1_SourcesDeduplicated ==
    \A c \in Callers :
        Got(c, "query") =>
            LET s == result[c].value.sources
                t == HitTriples(hits[c])
            IN  /\ \A i, j \in 1 .. Len(s) : i # j => s[i] # s[j]
                /\ {s[i] : i \in 1 .. Len(s)} = {t[i] : i \in 1 .. Len(t)}
                /\ \A i, j \in 1 .. Len(s) :
                       i < j => FirstIndex(t, s[i]) < FirstIndex(t, s[j])

\* Two hits with the same triple were returned and sources holds it once.
C1_Witness ==
    \E c \in Callers :
        /\ Got(c, "query")
        /\ Len(hits[c]) >= 2
        /\ source_info(hits[c][1]) = source_info(hits[c][2])
        /\ result[c].value.sources = <<source_info(hits[c][1])>>

\* C2: every no-hit path (query with no hits, generate_response called
\* with an empty list) returns the same four-field result: the fixed text,
\* no sources, confidence 0.0, context_results 0.
C2_NoHitResultUniform ==
    \A c \in Callers :
        (/\ pc[c] = "done"
         /\ op[c] \in {"query", "generate_response"}
         /\ result[c].kind = "returned"
         /\ hits[c] = <<>>)
        => result[c].value = NoResultsResponse

\* C3: against a populated index, a query with k = 3 all of whose hits
\* have no similarity to the question (score <= 0) returns the no-match
\* result.
C3_NoMatchOnUnrelatedQuery ==
    \A c \in Callers :
        (/\ Got(c, "query")
         /\ kArg[c] = 3
         /\ collection.entries # <<>>
         /\ \A i \in 1 .. Len(hits[c]) : hits[c][i].similarity_score <= 0)
        => result[c].value = NoResultsResponse

\* C4: context_results of a query result is the number of hits search
\* returned: at most k, at least the number of sources, and k when the
\* index holds at least k entries.
C4_ContextResultsCountsHits ==
    \A c \in Callers :
        Got(c, "query") =>
            LET v == result[c].value
                n == Len(collection.entries)
            IN  /\ v.context_results = Len(hits[c])
                /\ v.context_results <= kArg[c]
                /\ v.context_results >= Len(v.sources)
                /\ n >= kArg[c] => v.context_results = kArg[c]

\* k = 2 on an index of at least 2 entries: 2 context results, and the
\* deduplicated sources are fewer.
C4_Witness ==
    \E c \in Callers :
        /\ Got(c, "query")
        /\ kArg[c] = 2
        /\ result[c].value.context_results = 2
        /\ Len(result[c].value.sources) = 1

\* C5: with context_results > 0, every hit's score is 1 - distance rounded
\* to 3 decimals, confidence is the mean of all the hits' scores rounded to
\* 3 decimals (within half a thousandth of the mean), and it lies between
\* the smallest and the largest score.
C5_ConfidenceIsMean ==
    \A c \in Callers :
        (/\ pc[c] = "done"
         /\ op[c] \in {"query", "generate_response"}
         /\ result[c].kind = "returned"
         /\ hits[c] # <<>>)
        => LET v == result[c].value
               hs == hits[c]
               n == Len(hs)
           IN  /\ v.context_results = n
               /\ \A i \in 1 .. n :
                      2 * Abs(3 * hs[i].similarity_score
                              - (3000 - collection.entries[hs[i].content].distance)) <= 3
               /\ 2 * Abs(n * v.confidence - SumScores(hs)) <= n
               /\ \E i \in 1 .. n : hs[i].similarity_score <= v.confidence
               /\ \E i \in 1 .. n : hs[i].similarity_score >= v.confidence

\* Three hits, two of them one source: the duplicate counts in the mean,
\* which lies strictly between the scores.
C5_Witness ==
    \E c \in Callers :
        /\ Got(c, "query")
        /\ Len(hits[c]) = 3
        /\ Len(result[c].value.sources) = 2
        /\ \E i \in 1 .. 3 : hits[c][i].similarity_score < result[c].value.confidence
        /\ \E i \in 1 .. 3 : hits[c][i].similarity_score > result[c].value.confidence

\* C6: while the collection is absent no caller holds an engine, no call
\* returns a result (a no-match result included), and a caller that asked
\* got the "not initialized" outcome.
C6_UninitializedFailsFast ==
    ~collection.exists =>
        \A c \in Callers :
            /\ rag_engine[c] # Ready
            /\ result[c].kind # "returned"
            /\ pc[c] = "done" => result[c] = NotInitialized

\* A caller asked while the collection was absent.
C6_Witness ==
    \E c \in Callers :
        /\ ~collection.exists
        /\ rag_engine[c] = None
        /\ pc[c] = "done"
        /\ result[c] = NotInitialized

AloneResults(coll, c) ==
    IF op[c] = "query" THEN {Returned(r) : r \in query_response(search(coll, kArg[c]).hits)}
    ELSE IF op[c] = "generate_response" THEN {Returned(r) : r \in generate_response(hits[c])}
    ELSE {Returned(get_collection_info(coll))}

ErrorTexts == {"Erreur lors de la recherche", "Erreur"}
NoMatchTexts == {"Aucune information pertinente trouvee."}

\* C11: a query in which the embedding or the index failed ends with the
\* exception raised out of search and query (no hits kept, no response
\* built), and the front end shows its error text, not the "nothing found"
\* text; "nothing found" is shown only for a call that returned a result.
C11_FailureShownAsError ==
    \A c \in Callers :
        /\ (op[c] = "query" /\ index_error[c]) =>
               /\ pc[c] = "done"
               /\ result[c] = Raised
               /\ hits[c] = <<>>
               /\ shown[c] \in ErrorTexts
               /\ shown[c] \notin NoMatchTexts
        /\ shown[c] \in NoMatchTexts =>
               /\ ~index_error[c]
               /\ result[c].kind = "returned"

\* The index failed under one caller's query while the other got
\* "nothing found" from an empty collection.
C11_Witness ==
    \E c, d \in Callers :
        /\ op[c] = "query"
        /\ index_error[c]
        /\ shown[c] \in ErrorTexts
        /\ shown[d] \in NoMatchTexts

----------------------------------------------------------------------------
(* The ingestion run (src/ingest.py) *)

\* The files list of load_documents.
files == <<"carthage.txt", "dougga.txt", "el_jem.txt", "kerkouane.txt", "sbeitla.txt">>

\* file.replace(".txt", "").capitalize()
site_name(file) ==
    CASE file = "carthage.txt" -> "Carthage"
      [] file = "dougga.txt" -> "Dougga"
      [] file = "el_jem.txt" -> "El_jem"
      [] file = "kerkouane.txt" -> "Kerkouane"
      [] file = "sbeitla.txt" -> "Sbeitla"

\* A file of data/raw: absent, present but failing in loader.load(), or
\* present and readable with a text of the given size.
FileStates ==
    {[exists |-> FALSE, readable |-> FALSE, size |-> 0],
     [exists |-> TRUE, readable |-> FALSE, size |-> 0]}
    \cup {[exists |-> TRUE, readable |-> TRUE, size |-> n] : n \in 0 .. MaxFileChunks}

\* The lines the run prints.
Loaded(file) == [line |-> "ok: document(s) charge(s)", file |-> file]
LoadError(file) == [line |-> "Erreur avec", file |-> file]
NoDocumentFound == [line |-> "Aucun document trouve. Verifiez le dossier data/raw/", file |-> ""]
ChunksCreated == [line |-> "chunks crees", file |-> ""]
StoreCreated == [line |-> "Base ChromaDB creee avec succes!", file |-> ""]
IngestionDone == [line |-> "INGESTION TERMINEE AVEC SUCCES!", file |-> ""]

\* One turn of the for loop of load_documents: what it adds to documents
\* and what it prints for file i.
load_one(d, i) ==
    LET file == files[i]
    IN  IF d[i].exists
        THEN IF d[i].readable
             THEN [docs |-> <<[page_content |-> [file |-> file, size |-> d[i].size],
                               metadata |-> MetaOf(file, site_name(file))]>>,
                   out |-> <<Loaded(file)>>]
             ELSE [docs |-> <<>>, out |-> <<LoadError(file)>>]
        ELSE [docs |-> <<>>, out |-> <<>>]

\* create_chunks: the chunks of the documents, in document order.
RECURSIVE create_chunks(_)
create_chunks(docs) ==
    IF docs = <<>> THEN <<>>
    ELSE [part \in 1 .. docs[1].page_content.size |->
             [page_content |-> [file |-> docs[1].page_content.file, part |-> part],
              metadata |-> docs[1].metadata]]
         \o create_chunks(Tail(docs))

\* Chroma.from_documents: the collection is created if absent and one
\* entry (document, metadata, embedding) is added per chunk.
from_documents(coll, cs) ==
    [exists |-> TRUE,
     entries |-> coll.entries \o
                 [i \in 1 .. Len(cs) |->
                     [metadata |-> cs[i].metadata, document |-> cs[i].page_content]]]

\* main without the "if not documents" test.
after_load_no_guard(docs) == "chunk"

\* main after load_documents: "if not documents: print(...); return".
after_load(docs) == IF docs = <<>> THEN "return" ELSE "chunk"

\* A collection left by an earlier run.
EarlierCollection ==
    [exists |-> TRUE,
     entries |-> <<[metadata |-> MetaOf("carthage.txt", "Carthage"),
                    document |-> [file |-> "carthage.txt", part |-> 1]]>>]

InitIngest ==
    /\ disk \in [1 .. Len(files) -> FileStates]
    /\ collection \in {NoCollection, EarlierCollection}
    /\ prior = collection
    /\ ipc = "load"
    /\ next_file = 1
    /\ documents = <<>>
    /\ chunks = <<>>
    /\ printed = <<>>
    /\ rag_engine = [c \in Callers |-> Unset]
    /\ pc = [c \in Callers |-> "idle"]
    /\ op = [c \in Callers |-> "none"]
    /\ kArg = [c \in Callers |-> 0]
    /\ hits = [c \in Callers |-> <<>>]
    /\ looked_up = [c \in Callers |-> FALSE]
    /\ result = [c \in Callers |-> NoResult]
    /\ index_error = [c \in Callers |-> FALSE]
    /\ shown = [c \in Callers |-> NothingShown]
    /\ NoAuth
    /\ NoApp

\* load_documents: one turn of the for loop.
LoadDocument ==
    /\ ipc = "load"
    /\ next_file <= Len(files)
    /\ LET r == load_one(disk, next_file)
       IN  /\ documents' = documents \o r.docs
           /\ printed' = printed \o r.out
    /\ next_file' = next_file + 1
    /\ UNCHANGED <<collection, queryVars, authVars, appVars, disk, ipc, chunks, prior>>

\* load_documents returns; main tests "if not documents".
AfterLoad ==
    /\ ipc = "load"
    /\ next_file > Len(files)
    /\ IF after_load(documents) = "return"
       THEN /\ printed' = Append(printed, NoDocumentFound)
            /\ ipc' = "done"
       ELSE /\ printed' = printed
            /\ ipc' = "chunk"
    /\ UNCHANGED <<collection, queryVars, authVars, appVars, disk, next_file, documents, chunks, prior>>

\* chunks = create_chunks(documents)
CreateChunks ==
    /\ ipc = "chunk"
    /\ chunks' = create_chunks(documents)
    /\ printed' = Append(printed, ChunksCreated)
    /\ ipc' = "store"
    /\ UNCHANGED <<collection, queryVars, authVars, appVars, disk, next_file, documents, prior>>

\* vectorstore = create_vector_store(chunks)
CreateVectorStore ==
    /\ ipc = "store"
    /\ collection' = from_documents(collection, chunks)
    /\ printed' = Append(printed, StoreCreated)
    /\ ipc' = "test"
    /\ UNCHANGED <<queryVars, authVars, appVars, disk, next_file, documents, chunks, prior>>

\* create_vector_store raises (the directory, the embedding model or the
\* index write fails): nothing catches it and the run ends there.
CreateVectorStoreRaises ==
    /\ ipc = "store"
    /\ ipc' = "crashed"
    /\ UNCHANGED <<collection, queryVars, authVars, appVars, disk, next_file, documents, chunks, printed, prior>>

\* The test search and the closing lines of main.
TestSearch ==
    /\ ipc = "test"
    /\ printed' = Append(printed, IngestionDone)
    /\ ipc' = "done"
    /\ UNCHANGED <<collection, queryVars, authVars, appVars, disk, next_file, documents, chunks, prior>>

NextIngest ==
    \/ LoadDocument
    \/ AfterLoad
    \/ CreateChunks
    \/ CreateVectorStore
    \/ CreateVectorStoreRaises
    \/ TestSearch

SpecIngest == InitIngest /\ [][NextIngest]_vars

----------------------------------------------------------------------------
(* Properties of the ingestion run, checked under SpecIngest *)

\* The configured files that exist and load, in configured order.
RECURSIVE LoadableFrom(_)
LoadableFrom(i) ==
    IF i > Len(files) THEN <<>>
    ELSE (IF disk[i].exists /\ disk[i].readable THEN <<files[i]>> ELSE <<>>)
         \o LoadableFrom(i + 1)

LoadingOver == ipc # "load" \/ next_file > Len(files)

\* C7: when loading is over, the documents are exactly the configured files
\* that exist and load, in configured order, and every file that is missing
\* or failed to load has its failure in the log.
C7_FailuresLoggedAndSkipped ==
    LoadingOver =>
        /\ [i \in 1 .. Len(documents) |-> documents[i].metadata.source] = LoadableFrom(1)
        /\ \A i \in 1 .. Len(files) :
               ~(disk[i].exists /\ disk[i].readable)
                   => \E j \in 1 .. Len(printed) : printed[j] = LoadError(files[i])

\* C8: a run that loaded no document ends after the test in main: no
\* chunks, the collection as the run found it (not created, not written),
\* and "no document found" as its last line, a line that no run that
\* loaded a document prints and that comes with no success line.
C8_NoDocumentIsFatal ==
    /\ (LoadingOver /\ ipc # "load" /\ documents = <<>>) =>
           /\ ipc = "done"
           /\ chunks = <<>>
           /\ collection = prior
           /\ printed # <<>>
           /\ printed[Len(printed)] = NoDocumentFound
           /\ \A j \in 1 .. Len(printed) : printed[j] \notin {StoreCreated, IngestionDone}
    /\ (\E j \in 1 .. Len(printed) : printed[j] = NoDocumentFound) => documents = <<>>

\* A run ended with no loadable document although a file was there.
C8_Witness ==
    /\ ipc = "done"
    /\ documents = <<>>
    /\ \E i \in 1 .. Len(files) : disk[i].exists
    /\ printed[Len(printed)] = NoDocumentFound

----------------------------------------------------------------------------
(* AuthSystem (src/auth.py) *)

\* The usernames and passwords tried.
Usernames == {"amira", "bob"}
Passwords == {"carthage1", "dougga22"}

\* What the file system does to a call: nothing, json.load / open(.., "r")
\* raising, or open(.., "w") raising.
IoOutcomes == {"ok", "read_error", "write_error"}

\* _hash_password: the SHA-256 hex digest (distinct for distinct passwords).
_hash_password(password) == [sha256_of |-> password]

\* last_login of a user who never logged in.
NoLogin == 0

\* d with d[key] = value (set or replaced).
DictSet(d, key, value) ==
    [x \in DOMAIN d \cup {key} |-> IF x = key THEN value ELSE d[x]]

\* register without the "if username in users" test.
register_overwrite(us, username, password, t, io) ==
    IF io = "read_error" THEN [success |-> FALSE, users |-> us]
    ELSE IF io = "write_error" THEN [success |-> FALSE, users |-> us]
    ELSE [success |-> TRUE,
          users |-> DictSet(us, username,
                        [password |-> _hash_password(password),
                         created_at |-> t,
                         last_login |-> NoLogin])]

\* AuthSystem.register: what it returns and the users file after it.
register(us, username, password, t, io) ==
    IF io = "read_error" THEN [success |-> FALSE, users |-> us]
    ELSE IF username \in DOMAIN us THEN [success |-> FALSE, users |-> us]
    ELSE IF io = "write_error" THEN [success |-> FALSE, users |-> us]
    ELSE [success |-> TRUE,
          users |-> DictSet(us, username,
                        [password |-> _hash_password(password),
                         created_at |-> t,
                         last_login |-> NoLogin])]

\* AuthSystem.login: what it returns and the users file after it.
login(us, username, password, t, io) ==
    IF io = "read_error" THEN [success |-> FALSE, users |-> us]
    ELSE IF username \notin DOMAIN us THEN [success |-> FALSE, users |-> us]
    ELSE IF us[username].password # _hash_password(password)
         THEN [success |-> FALSE, users |-> us]
    ELSE IF io = "write_error" THEN [success |-> FALSE, users |-> us]
    ELSE [success |-> TRUE,
          users |-> [us EXCEPT ![username].last_login = t]]

\* AuthSystem(): _init_users_file writes {} when there is no users file.
InitAuth ==
    /\ users = <<>>
    /\ now = 1
    /\ auth_call = NoCall
    /\ registered_with = <<>>
    /\ collection = NoCollection
    /\ rag_engine = [c \in Callers |-> Unset]
    /\ pc = [c \in Callers |-> "idle"]
    /\ op = [c \in Callers |-> "none"]
    /\ kArg = [c \in Callers |-> 0]
    /\ hits = [c \in Callers |-> <<>>]
    /\ looked_up = [c \in Callers |-> FALSE]
    /\ result = [c \in Callers |-> NoResult]
    /\ index_error = [c \in Callers |-> FALSE]
    /\ shown = [c \in Callers |-> NothingShown]
    /\ NoIngestion
    /\ NoApp

\* A call of register.
Register(username, password, io) ==
    /\ now <= MaxAuthCalls
    /\ LET r == register(users, username, password, now, io)
       IN  /\ users' = r.users
           /\ auth_call' = [op |-> "register", username |-> username,
                            password |-> password, io |-> io, success |-> r.success]
           /\ registered_with' =
                  IF r.success /\ username \notin DOMAIN registered_with
                  THEN DictSet(registered_with, username, password)
                  ELSE registered_with
    /\ now' = now + 1
    /\ UNCHANGED <<collection, queryVars, ingestVars, appVars>>

\* A call of login.
Login(username, password, io) ==
    /\ now <= MaxAuthCalls
    /\ LET r == login(users, username, password, now, io)
       IN  /\ users' = r.users
           /\ auth_call' = [op |-> "login", username |-> username,
                            password |-> password, io |-> io, success |-> r.success]
    /\ now' = now + 1
    /\ UNCHANGED <<collection, queryVars, ingestVars, appVars, registered_with>>

NextAuth ==
    \E username \in Usernames, password \in Passwords, io \in IoOutcomes :
        \/ Register(username, password, io)
        \/ Login(username, password, io)

SpecAuth == InitAuth /\ [][NextAuth]_vars

----------------------------------------------------------------------------
(* Properties of AuthSystem, checked under SpecAuth *)

\* The step is a call of o.
CallOf(o) == now' # now /\ auth_call'.op = o

\* Every stored hash is the hash of the password of the first successful
\* register of its username.
FirstRegisterKept ==
    /\ DOMAIN users = DOMAIN registered_with
    /\ \A u \in DOMAIN users : users[u].password = _hash_password(registered_with[u])

\* register on an existing username fails and leaves the users file as it
\* was.
RegisterExistingRefused ==
    (CallOf("register") /\ auth_call'.username \in DOMAIN users)
        => ~auth_call'.success /\ users' = users

\* login changes at most the last_login of its user, and only on success.
LoginTouchesLastLoginOnly ==
    CallOf("login") =>
        /\ DOMAIN users' = DOMAIN users
        /\ \A u \in DOMAIN users :
               /\ users'[u].password = users[u].password
               /\ users'[u].created_at = users[u].created_at
               /\ (u # auth_call'.username \/ ~auth_call'.success)
                      => users'[u].last_login = users[u].last_login

\* The credentials of the call match the users file.
CredentialsMatch ==
    /\ auth_call'.username \in DOMAIN users
    /\ users[auth_call'.username].password = _hash_password(auth_call'.password)

----------------------------------------------------------------------------
(* The application (src/app.py): sessions, login_page and chatbot_page *)

\* What is typed in the username fields: nothing, a name shorter than 3
\* characters, a name that passes.
AppUsernames == {"", "bo", "amira"}

\* What is typed in the password fields: nothing, a password shorter than 6
\* characters, a password that passes.
AppPasswords == {"", "short", "carthage1"}

\* main without the test of st.session_state.authenticated.
main_always_chatbot(st) == "chatbot_page"

\* main of app.py: the page a run of the script shows in a session.
main(st) == IF ~st.authenticated THEN "login_page" ELSE "chatbot_page"

\* The checks of the S'inscrire button before register is called: the
\* message shown, or "" when register is called.
signup_error(new_user, new_pwd, confirm_pwd) ==
    IF new_user = "" \/ new_pwd = "" \/ confirm_pwd = ""
    THEN "Veuillez remplir tous les champs"
    ELSE IF new_pwd # confirm_pwd THEN "Les mots de passe ne correspondent pas"
    ELSE IF Len(new_user) < 3
         THEN "Le nom d'utilisateur doit avoir au moins 3 caracteres"
    ELSE IF Len(new_pwd) < 6
         THEN "Le mot de passe doit avoir au moins 6 caracteres"
    ELSE ""

\* What rag_engine.query(question, k) does once search has returned or
\* raised s: the hits, and what query hands back.
query_outcomes_from(s, failed) ==
    IF s.raised
    THEN {[hits |-> s.hits, looked_up |-> s.looked_up,
           index_error |-> failed, result |-> Raised]}
    ELSE {[hits |-> s.hits, looked_up |-> s.looked_up,
           index_error |-> failed, result |-> Returned(r)] :
              r \in query_response(s.hits)}

\* The outcomes of rag_engine.query(question, k=3) in chatbot_page: the
\* index answers, or the embedding or the index fails.
AskOutcomes(coll) ==
    query_outcomes_from(search(coll, DefaultK), FALSE)
        \cup UNION {query_outcomes_from(search_from(f), TRUE) : f \in IndexFailures}

\* The collections the application is started on: none (ingest.py was not
\* run), and one holding a chunk near the question or far from it.
AppCollections ==
    {NoCollection} \cup
        {[exists |-> TRUE,
          entries |-> <<[metadata |-> MetaOf("carthage.txt", "Carthage"), distance |-> d]>>] :
             d \in {1, 3300}}

\* A run of the script in session s: which page, which button, which call
\* on the engine and on auth_system.
Event(kind, s, engine, auth, success) ==
    [kind |-> kind, session |-> s, page |-> main(session[s]), engine |-> engine,
     auth |-> auth, success |-> success]

\* The application starts: init_rag() and init_auth() have run (both are
\* cached for all sessions), every session is new.
InitApp ==
    /\ collection \in AppCollections
    /\ rag_engine = [c \in Callers |->
                        IF Front(c) = "chatbot_page"
                        THEN RAGEngineInit(collection).engine ELSE Unset]
    /\ pc = [c \in Callers |-> "idle"]
    /\ op = [c \in Callers |-> "none"]
    /\ kArg = [c \in Callers |-> 0]
    /\ hits = [c \in Callers |-> <<>>]
    /\ looked_up = [c \in Callers |-> FALSE]
    /\ result = [c \in Callers |-> NoResult]
    /\ index_error = [c \in Callers |-> FALSE]
    /\ shown = [c \in Callers |-> NothingShown]
    /\ NoIngestion
    /\ users = <<>>
    /\ now = 1
    /\ auth_call = NoCall
    /\ registered_with = <<>>
    /\ NoApp

\* The Se connecter button of login_page.
LoginSubmit(s, username, password, io) ==
    /\ now <= MaxAppEvents
    /\ main(session[s]) = "login_page"
    /\ IF username # "" /\ password # ""
       THEN LET r == login(users, username, password, now, io)
            IN  /\ users' = r.users
                /\ auth_call' = [op |-> "login", username |-> username,
                                 password |-> password, io |-> io,
                                 success |-> r.success]
                /\ session' =
                       IF r.success
                       THEN [session EXCEPT ![s] =
                                [authenticated |-> TRUE, username |-> username,
                                 rag_engine |-> rag_engine["c1"]]]
                       ELSE session
                /\ app_event' = Event("login", s, "none", "login", r.success)
       ELSE /\ app_event' = Event("login", s, "none", "none", FALSE)
            /\ UNCHANGED <<users, auth_call, session>>
    /\ now' = now + 1
    /\ UNCHANGED <<collection, queryVars, ingestVars, registered_with>>

\* The S'inscrire button of login_page.
RegisterSubmit(s, new_user, new_pwd, confirm_pwd, io) ==
    /\ now <= MaxAppEvents
    /\ main(session[s]) = "login_page"
    /\ IF signup_error(new_user, new_pwd, confirm_pwd) = ""
       THEN LET r == register(users, new_user, new_pwd, now, io)
            IN  /\ users' = r.users
                /\ auth_call' = [op |-> "register", username |-> new_user,
                                 password |-> new_pwd, io |-> io,
                                 success |-> r.success]
                /\ registered_with' =
                       IF r.success /\ new_user \notin DOMAIN registered_with
                       THEN DictSet(registered_with, new_user, new_pwd)
                       ELSE registered_with
                /\ app_event' = Event("register", s, "none", "register", r.success)
       ELSE /\ app_event' = Event("register", s, "none", "none", FALSE)
            /\ UNCHANGED <<users, auth_call, registered_with>>
    /\ now' = now + 1
    /\ UNCHANGED <<collection, queryVars, ingestVars, session>>

\* The Deconnexion button of chatbot_page; st.rerun() ends the run there.
Logout(s) ==
    /\ now <= MaxAppEvents
    /\ main(session[s]) = "chatbot_page"
    /\ session' = [session EXCEPT ![s].authenticated = FALSE, ![s].username = ""]
    /\ app_event' = Event("logout", s, "none", "none", FALSE)
    /\ now' = now + 1
    /\ UNCHANGED <<collection, queryVars, ingestVars, users, auth_call, registered_with>>

\* A run of chatbot_page with a question: without an engine st.error, with
\* one rag_engine.query(question, k=3) and the display of its outcome.
Ask(s) ==
    /\ now <= MaxAppEvents
    /\ main(session[s]) = "chatbot_page"
    /\ IF rag_engine["c1"] # Ready
       THEN /\ op' = [op EXCEPT !["c1"] = "ask"]
            /\ result' = [result EXCEPT !["c1"] = NotInitialized]
            /\ shown' = [shown EXCEPT !["c1"] = ShowsUninitialized("c1")]
            /\ app_event' = Event("ask", s, "none", "none", FALSE)
            /\ UNCHANGED <<collection, kArg, hits, looked_up, index_error>>
       ELSE \E o \in AskOutcomes(collection) :
                /\ op' = [op EXCEPT !["c1"] = "query"]
                /\ kArg' = [kArg EXCEPT !["c1"] = DefaultK]
                /\ hits' = [hits EXCEPT !["c1"] = o.hits]
                /\ looked_up' = [looked_up EXCEPT !["c1"] = o.looked_up]
                /\ index_error' = [index_error EXCEPT !["c1"] = o.index_error]
                /\ result' = [result EXCEPT !["c1"] = o.result]
                /\ shown' = [shown EXCEPT !["c1"] = chatbot_page_shows(o.result)]
                /\ collection' = CollectionAfterCall(collection)
                /\ app_event' = Event("ask", s, "query", "none", FALSE)
    /\ pc' = [pc EXCEPT !["c1"] = "done"]
    /\ now' = now + 1
    /\ UNCHANGED <<rag_engine, ingestVars, users, auth_call, registered_with, session>>

\* A run of the script without a click or a question (a page load, the run
\* st.rerun() starts): login_page calls nothing, the sidebar of chatbot_page
\* calls rag_engine.get_collection_info().
Rerun(s) ==
    /\ now <= MaxAppEvents
    /\ IF main(session[s]) = "chatbot_page" /\ rag_engine["c1"] = Ready
       THEN /\ op' = [op EXCEPT !["c1"] = "get_collection_info"]
            /\ result' = [result EXCEPT !["c1"] = Returned(get_collection_info(collection))]
            /\ pc' = [pc EXCEPT !["c1"] = "done"]
            /\ collection' = CollectionAfterCall(collection)
            /\ app_event' = Event("rerun", s, "get_collection_info", "none", FALSE)
       ELSE /\ app_event' = Event("rerun", s, "none", "none", FALSE)
            /\ UNCHANGED <<collection, op, result, pc>>
    /\ now' = now + 1
    /\ UNCHANGED <<rag_engine, kArg, hits, looked_up, index_error, shown,
                   ingestVars, users, auth_call, registered_with, session>>

NextApp ==
    \E s \in Sessions :
        \/ \E username \in AppUsernames, password \in AppPasswords, io \in IoOutcomes :
               LoginSubmit(s, username, password, io)
        \/ \E new_user \in AppUsernames, new_pwd \in AppPasswords,
              confirm_pwd \in AppPasswords, io \in IoOutcomes :
               RegisterSubmit(s, new_user, new_pwd, confirm_pwd, io)
        \/ Logout(s)
        \/ Ask(s)
        \/ Rerun(s)

SpecApp == InitApp /\ [][NextApp]_vars

----------------------------------------------------------------------------
(* Properties of the session state machine, checked under SpecApp *)

\* The step is a run of the script in session s.
RunIn(s) == now' # now /\ app_event'.session = s

\* The step calls the engine (query or get_collection_info) in session s.
EngineCalledIn(s) == RunIn(s) /\ app_event'.engine # "none"

\* The step is a login call that returned success for the user that session
\* s holds afterwards.
LoggedInBy(s) ==
    /\ RunIn(s)
    /\ app_event'.kind = "login"
    /\ app_event'.auth = "login"
    /\ app_event'.success
    /\ auth_call'.op = "login"
    /\ auth_call'.success
    /\ auth_call'.username \in DOMAIN users
    /\ users[auth_call'.username].password = _hash_password(auth_call'.password)
    /\ session'[s].username = auth_call'.username

\* C13: authenticated starts false in every session; the engine is called
\* only in a session whose authenticated is true; authenticated becomes true
\* only in the step of a login call that returned success, with username set
\* to the user logged in; logout sets authenticated to false and clears
\* username (so that no engine call is possible in the session until another
\* successful login).
C13_QueriesNeedLogin ==
    /\ \A s \in Sessions : ~session[s].authenticated
    /\ [][\A s \in Sessions :
             /\ EngineCalledIn(s) => session[s].authenticated
             /\ (session'[s].authenticated /\ ~session[s].authenticated)
                    => LoggedInBy(s)
             /\ (RunIn(s) /\ app_event'.kind = "logout")
                    => ~session'[s].authenticated /\ session'[s].username = ""]_vars

\* A session logged in, queried the engine and got an answer, logged out,
\* and a login attempt that failed then left it logged out, while the other
\* session never logged in.
C13_Witness ==
    \E s \in Sessions :
        /\ app_event.kind = "login"
        /\ app_event.session = s
        /\ app_event.auth = "login"
        /\ ~app_event.success
        /\ ~session[s].authenticated
        /\ session[s].username = ""
        /\ session[s].rag_engine = Ready
        /\ op["c1"] = "query"
        /\ result["c1"].kind = "returned"
        /\ \A o \in Sessions \ {s} : session[o] = NewSession

====
